---- MODULE Spec2Model ----
(***************************************************************************)
(* Streaming relay of infrastructure/lambdas/streaming-agent/handler.py:   *)
(* one SQS-triggered invocation of lambda_handler, the upstream            *)
(* invoke_agent_runtime call, the line-by-line relay of its event stream   *)
(* (or of its buffered body) and publish_to_appsync.                       *)
(***************************************************************************)
EXTENDS Integers, Sequences, FiniteSets, TLC

(***************************************************************************)
(* Bounds of the model.                                                    *)
(***************************************************************************)
\* longest upstream event stream, in lines
MaxLines == 2
\* SQS records in one trigger beyond Records[0]
MaxExtraRecords == 1
\* times the queue delivers one message to the handler
MaxDeliveries == 2
\* longest stream of events the agent's model produces
MaxModelEvents == 2

(***************************************************************************)
(* Python / JSON values.  A value is a tagged record; None and JSON null   *)
(* are the same value.                                                     *)
(***************************************************************************)
JNull == [t |-> "null"]
JStr(s) == [t |-> "str", s |-> s]
JNum(n) == [t |-> "num", n |-> n]
JList(items) == [t |-> "list", items |-> items]
JDict(f) == [t |-> "dict", f |-> f]
EmptyDict == [t |-> "dict", f |-> <<>>]

\* bool(v)
Truthy(v) ==
    CASE v.t = "null" -> FALSE
      [] v.t = "str"  -> v.s # ""
      [] v.t = "num"  -> v.n # 0
      [] v.t = "list" -> v.items # <<>>
      [] v.t = "dict" -> DOMAIN v.f # {}

\* a in b, for strings
IsSubstring(a, b) ==
    \E i \in 1..(Len(b) - Len(a) + 1) : SubSeq(b, i, i + Len(a) - 1) = a

\* s.startswith(p)
StartsWith(s, p) == Len(s) >= Len(p) /\ SubSeq(s, 1, Len(p)) = p

\* `key in v` is defined for dict, str and list; it raises TypeError otherwise
SupportsIn(v) == v.t \in {"dict", "str", "list"}

\* key in v
In(key, v) ==
    CASE v.t = "dict" -> key \in DOMAIN v.f
      [] v.t = "str"  -> IsSubstring(key, v.s)
      [] v.t = "list" -> \E i \in 1..Len(v.items) : v.items[i] = JStr(key)

\* d.get(key, default), d a dict
Get(d, key, default) == IF key \in DOMAIN d.f THEN d.f[key] ELSE default

\* str(v) as an f-string renders it
PyStr(v) ==
    CASE v.t = "str"  -> v.s
      [] v.t = "num"  -> ToString(v.n)
      [] v.t = "null" -> "None"

(***************************************************************************)
(* json.loads, as a table over the texts the model feeds it; every other   *)
(* text the model uses is not JSON and raises JSONDecodeError.             *)
(***************************************************************************)
LongSessionId == "abcdefghijklmnopqrstuvwxyz0123456"
ShortSessionId == "abc"
OtherSessionId == "ABCDEFGHIJKLMNOPQRSTUVWXYZ0123456"

ContentRecord(text) ==
    JDict([event |-> JDict([contentBlockDelta |->
        JDict([delta |-> JDict([text |-> text])])])])

ToolRecord(toolUse) ==
    JDict([event |-> JDict([contentBlockStart |->
        JDict([start |-> JDict([toolUse |-> toolUse])])])])

Decoded(v) == [ok |-> TRUE, v |-> v]
JSONDecodeError == [ok |-> FALSE]

JsonLoads(s) ==
    CASE s = "{\"prompt\":\"hi\",\"runtimeSessionId\":\"abcdefghijklmnopqrstuvwxyz0123456\"}"
            -> Decoded(JDict([prompt |-> JStr("hi"), runtimeSessionId |-> JStr(LongSessionId)]))
      [] s = "{\"prompt\":\"hi\",\"runtimeSessionId\":\"ABCDEFGHIJKLMNOPQRSTUVWXYZ0123456\"}"
            -> Decoded(JDict([prompt |-> JStr("hi"), runtimeSessionId |-> JStr(OtherSessionId)]))
      [] s = "{\"prompt\":\"hi\",\"runtimeSessionId\":\"abc\"}"
            -> Decoded(JDict([prompt |-> JStr("hi"), runtimeSessionId |-> JStr(ShortSessionId)]))
      [] s = "{\"prompt\":\"\",\"runtimeSessionId\":\"abc\"}"
            -> Decoded(JDict([prompt |-> JStr(""), runtimeSessionId |-> JStr(ShortSessionId)]))
      [] s = "{\"runtimeSessionId\":\"abcdefghijklmnopqrstuvwxyz0123456\"}"
            -> Decoded(JDict([runtimeSessionId |-> JStr(LongSessionId)]))
      [] s = "{\"prompt\":\"hi\"}"
            -> Decoded(JDict([prompt |-> JStr("hi")]))
      [] s = "{\"prompt\":\"hi\",\"runtimeSessionId\":\"\"}"
            -> Decoded(JDict([prompt |-> JStr("hi"), runtimeSessionId |-> JStr("")]))
      [] s = "[]"
            -> Decoded(JList(<<>>))
      [] s = "{\"answer\":\"hello\"}"
            -> Decoded(JDict([answer |-> JStr("hello")]))
      [] s = "{\"event\":{\"contentBlockDelta\":{\"delta\":{\"text\":\"a\"}}}}"
            -> Decoded(ContentRecord(JStr("a")))
      [] s = "{\"event\":{\"contentBlockDelta\":{\"delta\":{\"text\":\"b\"}}}}"
            -> Decoded(ContentRecord(JStr("b")))
      [] s = "{\"event\":{\"contentBlockDelta\":{\"delta\":{\"text\":\"Error: boom\"}}}}"
            -> Decoded(ContentRecord(JStr("Error: boom")))
      [] s = "{\"event\":{\"contentBlockDelta\":{\"delta\":{\"text\":\"\"}}}}"
            -> Decoded(ContentRecord(JStr("")))
      [] s = "{\"event\":{\"contentBlockStart\":{\"start\":{\"toolUse\":{\"name\":\"kb_search\"}}}}}"
            -> Decoded(ToolRecord(JDict([name |-> JStr("kb_search")])))
      [] s = "{\"event\":{\"contentBlockStart\":{\"start\":{\"toolUse\":{}}}}}"
            -> Decoded(ToolRecord(EmptyDict))
      [] s = "{\"event\":{\"contentBlockStart\":{\"start\":{\"toolUse\":{\"name\":\"\"}}}}}"
            -> Decoded(ToolRecord(JDict([name |-> JStr("")])))
      [] s = "{\"event\":{\"contentBlockDelta\":{\"delta\":{}},\"contentBlockStart\":{\"start\":{\"toolUse\":{\"name\":\"kb_search\"}}}}}"
            -> Decoded(JDict([event |-> JDict([
                   contentBlockDelta |-> JDict([delta |-> EmptyDict]),
                   contentBlockStart |-> JDict([start |->
                       JDict([toolUse |-> JDict([name |-> JStr("kb_search")])])])])]))
      [] s = "{\"status\":\"error\",\"error\":\"boom\"}"
            -> Decoded(JDict([status |-> JStr("error"), error |-> JStr("boom")]))
      [] s = "{\"event\":null}"
            -> Decoded(JDict([event |-> JNull]))
      [] s = "{\"event\":\"messageStop\"}"
            -> Decoded(JDict([event |-> JStr("messageStop")]))
      [] OTHER -> JSONDecodeError

(***************************************************************************)
(* Inputs: the SQS trigger, the Events API configuration, the upstream     *)
(* response.                                                               *)
(***************************************************************************)
\* the bodies an SQS record carries
BodyTexts ==
    { "{\"prompt\":\"hi\",\"runtimeSessionId\":\"abcdefghijklmnopqrstuvwxyz0123456\"}",
      "{\"prompt\":\"hi\",\"runtimeSessionId\":\"abc\"}",
      "{\"prompt\":\"\",\"runtimeSessionId\":\"abc\"}",
      "{\"runtimeSessionId\":\"abcdefghijklmnopqrstuvwxyz0123456\"}",
      "{\"prompt\":\"hi\"}",
      "{\"prompt\":\"hi\",\"runtimeSessionId\":\"\"}",
      "[]",
      "prompt=hi" }

\* the bodies of the records after Records[0]
ExtraBodyTexts ==
    { "{\"prompt\":\"hi\",\"runtimeSessionId\":\"abcdefghijklmnopqrstuvwxyz0123456\"}" }

RECURSIVE SeqsUpTo(_, _)
\* the sequences over S of length at most n
SeqsUpTo(S, n) ==
    IF n = 0 THEN { <<>> }
    ELSE LET shorter == SeqsUpTo(S, n - 1)
         IN  shorter \cup { Append(q, e) : q \in { r \in shorter : Len(r) = n - 1 }, e \in S }

\* the event lambda_handler receives
Triggers ==
    { [hasRecords |-> FALSE, Records |-> <<>>], [hasRecords |-> TRUE, Records |-> <<>>] }
    \cup { [hasRecords |-> TRUE, Records |-> <<[body |-> b]>> \o extra] :
             b \in BodyTexts,
             extra \in { [i \in DOMAIN q |-> [body |-> q[i]]] :
                           q \in SeqsUpTo(ExtraBodyTexts, MaxExtraRecords) } }

\* A line of the stream as iter_lines yields it: bytes.  text is the
\* longest prefix that is valid UTF-8, invalid says an undecodable byte
\* follows it.
Line(text, invalid) == [text |-> text, invalid |-> invalid]

StreamLines ==
    { Line("", FALSE),
      Line(": keep-alive", FALSE),
      Line("data: {\"event\":", FALSE),
      Line("data: ", TRUE),
      Line("data: {\"event\":{\"contentBlockDelta\":{\"delta\":{\"text\":\"a\"}}}}", FALSE),
      Line("data: {\"event\":{\"contentBlockDelta\":{\"delta\":{\"text\":\"b\"}}}}", FALSE),
      Line("data: {\"event\":{\"contentBlockDelta\":{\"delta\":{\"text\":\"\"}}}}", FALSE),
      Line("data: {\"event\":{\"contentBlockStart\":{\"start\":{\"toolUse\":{\"name\":\"kb_search\"}}}}}", FALSE),
      Line("data: {\"event\":{\"contentBlockStart\":{\"start\":{\"toolUse\":{}}}}}", FALSE),
      Line("data: {\"event\":{\"contentBlockStart\":{\"start\":{\"toolUse\":{\"name\":\"\"}}}}}", FALSE),
      Line("data: {\"event\":{\"contentBlockDelta\":{\"delta\":{}},\"contentBlockStart\":{\"start\":{\"toolUse\":{\"name\":\"kb_search\"}}}}}", FALSE),
      Line("data: {\"event\":{\"contentBlockDelta\":{\"delta\":{\"text\":\"Error: boom\"}}}}", FALSE),
      Line("data: {\"status\":\"error\",\"error\":\"boom\"}", FALSE),
      Line("data: {\"event\":null}", FALSE),
      Line("data: {\"event\":\"messageStop\"}", FALSE),
      Line("data: []", FALSE) }

\* the response of invoke_agent_runtime: a dict with an optional contentType
\* and a StreamingBody under "response"
Response(hasContentType, contentType, lines, body) ==
    [hasContentType |-> hasContentType, contentType |-> contentType,
     lines |-> lines, body |-> body]

NoResponse == Response(FALSE, "", <<>>, "")

Responses ==
    { Response(TRUE, "text/event-stream", lines, "") :
        lines \in SeqsUpTo(StreamLines, MaxLines) }
    \cup { Response(TRUE, "text/event-stream; charset=utf-8", lines, "") :
        lines \in SeqsUpTo(StreamLines, 1) }
    \cup { Response(TRUE, "application/json", <<>>, b) : b \in {"{\"answer\":\"hello\"}", "upstream timeout"} }
    \cup { Response(FALSE, "", <<>>, b) : b \in {"{\"answer\":\"hello\"}"} }

(***************************************************************************)
(* The relay's pure steps.                                                 *)
(***************************************************************************)
\* a validation that forgets the session id
ValidRequestPromptOnly(p, sid) == Truthy(p)

\* line 81: `not prompt or not session_id` is false
ValidRequest(p, sid) == Truthy(p) /\ Truthy(sid)

\* a relay that publishes every session to one channel
ChannelNameShared(sid) == "chat/" \o "session"

\* line 97: f"chat/{session_id}"
ChannelName(sid) == "chat/" \o PyStr(sid)

\* a test for the bare media type, parameters not allowed
IsEventStreamExact(r) == r.hasContentType /\ r.contentType = "text/event-stream"

\* line 100: "text/event-stream" in response.get("contentType", "")
IsEventStream(r) ==
    IsSubstring("text/event-stream", IF r.hasContentType THEN r.contentType ELSE "")

NoEvent == [out |-> "none"]
Raises(exc) == [out |-> "raise", exc |-> exc]
Publishes(data) == [out |-> "publish", data |-> data]

\* a template that lost its wording
ToolUsePrefixBare == "U+1F527 "

\* the glyph the handler puts before the template, U+1F527, written in ASCII
ToolUsePrefix == "U+1F527 Using tool: "

\* lines 121-129: the contentBlockDelta branch
ClassifyDelta(ev, sid) ==
    IF ev.t # "dict" THEN Raises("TypeError")
    ELSE LET cbd == ev.f["contentBlockDelta"] IN
    IF cbd.t # "dict" THEN Raises("AttributeError")
    ELSE LET delta == Get(cbd, "delta", EmptyDict) IN
    IF ~SupportsIn(delta) THEN Raises("TypeError")
    ELSE IF ~In("text", delta) THEN NoEvent
    ELSE IF delta.t # "dict" THEN Raises("TypeError")
    ELSE Publishes([type |-> "content", sessionId |-> sid, text |-> delta.f["text"]])

\* lines 132-141: the contentBlockStart branch
ClassifyStart(ev, sid) ==
    IF ev.t # "dict" THEN Raises("TypeError")
    ELSE LET cbs == ev.f["contentBlockStart"] IN
    IF cbs.t # "dict" THEN Raises("AttributeError")
    ELSE LET start == Get(cbs, "start", EmptyDict) IN
    IF ~SupportsIn(start) THEN Raises("TypeError")
    ELSE IF ~In("toolUse", start) THEN NoEvent
    ELSE IF start.t # "dict" THEN Raises("TypeError")
    ELSE LET toolUse == start.f["toolUse"] IN
    IF toolUse.t # "dict" THEN Raises("AttributeError")
    ELSE LET tool_name == Get(toolUse, "name", JNull) IN
    IF ~Truthy(tool_name) THEN NoEvent
    ELSE Publishes([type |-> "tool_use", sessionId |-> sid,
                    text |-> JStr(ToolUsePrefix \o PyStr(tool_name))])

\* a relay that turns the agent's status record into an error event
ClassifyRecordStatusAware(event_data, sid) ==
    IF event_data.t = "dict" /\ In("status", event_data)
    THEN Publishes([type |-> "error", sessionId |-> sid, text |-> Get(event_data, "error", JNull)])
    ELSE IF ~(event_data.t = "dict" /\ In("event", event_data)) THEN NoEvent
    ELSE LET ev == event_data.f["event"] IN
    IF ~SupportsIn(ev) THEN Raises("TypeError")
    ELSE IF In("contentBlockDelta", ev) THEN ClassifyDelta(ev, sid)
    ELSE IF In("contentBlockStart", ev) THEN ClassifyStart(ev, sid)
    ELSE NoEvent

\* lines 117-141: what a decoded record makes the relay do
ClassifyRecord(event_data, sid) ==
    IF ~(event_data.t = "dict" /\ In("event", event_data)) THEN NoEvent
    ELSE LET ev == event_data.f["event"] IN
    IF ~SupportsIn(ev) THEN Raises("TypeError")
    ELSE IF In("contentBlockDelta", ev) THEN ClassifyDelta(ev, sid)
    ELSE IF In("contentBlockStart", ev) THEN ClassifyStart(ev, sid)
    ELSE NoEvent

\* lines 106-144: what one line of the stream makes the relay do
ProcessLine(line, sid) ==
    IF line.text = "" /\ ~line.invalid THEN NoEvent
    ELSE IF line.invalid THEN Raises("UnicodeDecodeError")
    ELSE IF ~StartsWith(line.text, "data: ") THEN NoEvent
    ELSE LET event_json == SubSeq(line.text, 7, Len(line.text))
             parsed == JsonLoads(event_json)
         IN  IF ~parsed.ok THEN NoEvent
             ELSE ClassifyRecord(parsed.v, sid)

\* lines 155-171: the three events of the buffered path
BufferedEvent(step, sid, response_data) ==
    CASE step = "buf_start"   -> [type |-> "start", sessionId |-> sid]
      [] step = "buf_content" -> [type |-> "content", sessionId |-> sid, content |-> response_data]
      [] step = "buf_end"     -> [type |-> "end", sessionId |-> sid]

\* a buffered path that forgets the content event
BufferedNextSkipsContent(step) ==
    CASE step = "buf_start"   -> "buf_end"
      [] step = "buf_content" -> "buf_end"
      [] step = "buf_end"     -> "done"

\* lines 155-173: where the buffered path goes after a publish returns
BufferedNext(step) ==
    CASE step = "buf_start"   -> "buf_content"
      [] step = "buf_content" -> "buf_end"
      [] step = "buf_end"     -> "done"

\* a publisher that puts the event in the message twice
ChannelMessageBatched(channel, event_data) ==
    [channel |-> channel, events |-> <<[json |-> event_data], [json |-> event_data]>>]

\* lines 22-25: the message publish_to_appsync posts
ChannelMessage(channel, event_data) ==
    [channel |-> channel, events |-> <<[json |-> event_data]>>]

(***************************************************************************)
(* State of one invocation of lambda_handler and of its collaborators.     *)
(***************************************************************************)
VARIABLES
    pc,            \* where the handler is
    event,         \* the trigger it was invoked with
    endpoint,      \* TRUE when EVENT_API_ENDPOINT is configured
    prompt,        \* body.get('prompt')
    session_id,    \* body.get('runtimeSessionId')
    invocations,   \* the calls made to invoke_agent_runtime, in order
    response,      \* what invoke_agent_runtime returned
    cursor,        \* lines of the stream consumed so far
    response_data, \* the parsed body of a buffered response
    handed,        \* the calls made to publish_to_appsync, in order
    outcomes,      \* how each of those calls ended, in order
    requests,      \* HTTP requests sent to the Events API
    received,      \* the messages the Events API accepted, in order
    ret,           \* where the handler continues when the publish returns
    returned,      \* what each call of publish_to_appsync returned, in order
    fault,         \* the exception raised to the invocation context
    runs,          \* two concurrent invocations: the locals of each
    channels,      \* two concurrent invocations: the Events API's channels
    agent,         \* the supervisor agent's agent_stream generator
    invoke         \* the synchronous invoke-agent handler

vars == <<pc, event, endpoint, prompt, session_id, invocations, response, cursor,
          response_data, handed, outcomes, requests, received, ret, returned, fault,
          runs, channels, agent, invoke>>

\* the variables of the two-invocation model
pairVars == <<runs, channels>>

NoFault == "none"

\* agent_stream and invoke_agent before they are called
AgentIdle == [pc |-> "idle"]
InvokeIdle == [pc |-> "idle"]

Init ==
    /\ pc = "start"
    /\ event \in Triggers
    /\ endpoint \in BOOLEAN
    /\ prompt = JNull
    /\ session_id = JNull
    /\ invocations = <<>>
    /\ response = NoResponse
    /\ cursor = 0
    /\ response_data = JNull
    /\ handed = <<>>
    /\ outcomes = <<>>
    /\ requests = 0
    /\ received = <<>>
    /\ ret = "none"
    /\ returned = <<>>
    /\ fault = NoFault
    /\ runs = <<>>
    /\ channels = <<>>
    /\ agent = AgentIdle
    /\ invoke = InvokeIdle

\* raise exc to the invocation context
Raise(exc) == pc' = "raised" /\ fault' = exc

\* a handler that takes the newest record of the batch
SqsRecordLast(records) == records[Len(records)]

\* line 73: sqs_record = event['Records'][0]
SqsRecord(records) == records[1]

\* lines 68-83: where parsing and validating the trigger ends, and with what
ParseOutcome(ev) ==
    IF ~ev.hasRecords \/ Len(ev.Records) = 0
    THEN [pc |-> "raised", fault |-> "ValueError", prompt |-> JNull, session_id |-> JNull]
    ELSE LET parsed == JsonLoads(SqsRecord(ev.Records).body) IN
    IF ~parsed.ok
    THEN [pc |-> "raised", fault |-> "JSONDecodeError", prompt |-> JNull, session_id |-> JNull]
    ELSE IF parsed.v.t # "dict"
    THEN [pc |-> "raised", fault |-> "AttributeError", prompt |-> JNull, session_id |-> JNull]
    ELSE LET p == Get(parsed.v, "prompt", JNull)
             sid == Get(parsed.v, "runtimeSessionId", JNull)
         IN  IF ValidRequest(p, sid)
             THEN [pc |-> "invoking", fault |-> NoFault, prompt |-> p, session_id |-> sid]
             ELSE [pc |-> "raised", fault |-> "ValueError", prompt |-> p, session_id |-> sid]

\* lines 68-85
ParseEvent ==
    /\ pc = "start"
    /\ LET o == ParseOutcome(event) IN
        /\ pc' = o.pc
        /\ fault' = o.fault
        /\ prompt' = o.prompt
        /\ session_id' = o.session_id
    /\ UNCHANGED <<event, endpoint, invocations, response, cursor, response_data,
                   handed, outcomes, requests, received, ret>>
    /\ UNCHANGED <<returned, runs, channels, agent, invoke>>

\* lines 90-94: the call made to the runtime
Invocation(sid, p) == [runtimeSessionId |-> sid, payload |-> [prompt |-> p]]

\* lines 88-100: invoke the runtime; the call raises or returns a response
InvokeRuntime ==
    /\ pc = "invoking"
    /\ invocations' = Append(invocations, Invocation(session_id, prompt))
    /\ \E raised \in BOOLEAN :
        IF raised
        THEN Raise("ClientError") /\ UNCHANGED response
        ELSE \E r \in Responses :
               /\ response' = r
               /\ pc' = IF IsEventStream(r) THEN "streaming" ELSE "buffered"
               /\ UNCHANGED fault
    /\ UNCHANGED <<event, endpoint, prompt, session_id, cursor, response_data,
                   handed, outcomes, requests, received, ret>>
    /\ UNCHANGED <<returned, runs, channels, agent, invoke>>

\* a relay that puts the newest call first
HandedNewestFirst(h, channel, event_data) == <<ChannelMessage(channel, event_data)>> \o h

\* a call of publish_to_appsync(channel, event_data) is recorded
Handed(h, channel, event_data) == Append(h, ChannelMessage(channel, event_data))

\* lines 105-144: one iteration of the loop over the stream's lines
ReadLine ==
    /\ pc = "streaming"
    /\ cursor < Len(response.lines)
    /\ LET o == ProcessLine(response.lines[cursor + 1], session_id) IN
        CASE o.out = "none" ->
                /\ cursor' = cursor + 1
                /\ UNCHANGED <<pc, fault, handed, ret>>
          [] o.out = "raise" ->
                /\ Raise(o.exc)
                /\ UNCHANGED <<cursor, handed, ret>>
          [] o.out = "publish" ->
                /\ cursor' = cursor + 1
                /\ handed' = Handed(handed, ChannelName(session_id), o.data)
                /\ pc' = "publishing"
                /\ ret' = "streaming"
                /\ UNCHANGED fault
    /\ UNCHANGED <<event, endpoint, prompt, session_id, invocations, response,
                   response_data, outcomes, requests, received>>
    /\ UNCHANGED <<returned, runs, channels, agent, invoke>>

\* a loop that waits for more lines when the stream is exhausted
AfterStreamWaiting == "streaming"

\* lines 105, 146: iter_lines is exhausted, the loop ends and the handler returns
AfterStream == "done"

\* line 146: the stream is exhausted and the handler returns
StreamEnd ==
    /\ pc = "streaming"
    /\ cursor = Len(response.lines)
    /\ pc' = AfterStream
    /\ UNCHANGED <<event, endpoint, prompt, session_id, invocations, response, cursor,
                   response_data, handed, outcomes, requests, received, ret, fault>>
    /\ UNCHANGED <<returned, runs, channels, agent, invoke>>

\* lines 151-152: read and parse the buffered body; the read of the
\* StreamingBody raises or gives the body
ReadBody ==
    /\ pc = "buffered"
    /\ \/ /\ Raise("ReadTimeoutError")
          /\ UNCHANGED response_data
       \/ LET parsed == JsonLoads(response.body) IN
           IF parsed.ok
           THEN /\ response_data' = parsed.v
                /\ pc' = "buf_start"
                /\ UNCHANGED fault
           ELSE /\ Raise("JSONDecodeError")
                /\ UNCHANGED response_data
    /\ UNCHANGED <<event, endpoint, prompt, session_id, invocations, response, cursor,
                   handed, outcomes, requests, received, ret>>
    /\ UNCHANGED <<returned, runs, channels, agent, invoke>>

\* lines 155-171: one of the three publish calls of the buffered path
BufferedPublish ==
    /\ pc \in {"buf_start", "buf_content", "buf_end"}
    /\ handed' = Handed(handed, ChannelName(session_id),
                        BufferedEvent(pc, session_id, response_data))
    /\ ret' = BufferedNext(pc)
    /\ pc' = "publishing"
    /\ UNCHANGED <<event, endpoint, prompt, session_id, invocations, response, cursor,
                   response_data, outcomes, requests, received, fault>>
    /\ UNCHANGED <<returned, runs, channels, agent, invoke>>

\* how a call of publish_to_appsync can end
PublishOutcomes(configured) ==
    IF configured
    THEN {"sign_error", "transport_error", "decode_error", "status_500", "status_200"}
    ELSE {"no_endpoint"}

\* lines 38-44: the outcomes in which the HTTP request was sent
RequestSent(outcome) ==
    outcome \in {"transport_error", "decode_error", "status_500", "status_200"}

\* the Events API accepts the message exactly when it answers 200
Accepted(outcome) == outcome = "status_200"

\* a publisher that sends the request again when it was not accepted
RequestsMadeRetrying(outcome) ==
    IF ~RequestSent(outcome) THEN 0 ELSE IF Accepted(outcome) THEN 1 ELSE 2

\* lines 38-44: the one call of http.request, when the call gets that far
RequestsMade(outcome) == IF RequestSent(outcome) THEN 1 ELSE 0

\* a publisher whose failure ends the run
AfterPublishAborting(outcome, continuation) ==
    IF Accepted(outcome) THEN continuation ELSE "raised"

\* lines 18-20, 49-53: every outcome is logged and the call returns to its caller
AfterPublish(outcome, continuation) == continuation

\* lines 14-53: no return statement of publish_to_appsync carries a value
ReturnValue(outcome) == "None"

\* lines 14-53: publish_to_appsync runs and returns
PublishToAppsync ==
    /\ pc = "publishing"
    /\ \E outcome \in PublishOutcomes(endpoint) :
        /\ outcomes' = Append(outcomes, outcome)
        /\ requests' = requests + RequestsMade(outcome)
        /\ received' = IF Accepted(outcome)
                       THEN Append(received, handed[Len(handed)])
                       ELSE received
        /\ returned' = Append(returned, ReturnValue(outcome))
        /\ pc' = AfterPublish(outcome, ret)
    /\ ret' = "none"
    /\ UNCHANGED <<event, endpoint, prompt, session_id, invocations, response, cursor,
                   response_data, handed, fault, runs, channels, agent, invoke>>

Next ==
    \/ ParseEvent
    \/ InvokeRuntime
    \/ ReadLine
    \/ StreamEnd
    \/ ReadBody
    \/ BufferedPublish
    \/ PublishToAppsync

Spec == Init /\ [][Next]_vars

\* the invocations whose trigger has at most one record and whose publisher
\* is configured
InitFair == Init /\ Len(event.Records) <= 1 /\ endpoint

\* every read of the stream and every call the handler makes returns, so the
\* handler always takes its next step
SpecFair == InitFair /\ [][Next]_vars /\ WF_vars(Next)

(***************************************************************************)
(* The invocation context: the queue and the function's deadline           *)
(* (infrastructure/stacks/frontend_stack.py).                              *)
(***************************************************************************)
\* frontend_stack.py 271-287: the function has a timeout; when it passes, the
\* invocation is ended from outside, wherever the handler is
DeadlineExceeded ==
    /\ pc \in {"invoking", "streaming", "buffered", "buf_start", "buf_content",
               "buf_end", "publishing"}
    /\ pc' = "timed_out"
    /\ fault' = "Task timed out"
    /\ UNCHANGED <<event, endpoint, prompt, session_id, invocations, response, cursor,
                   response_data, handed, outcomes, requests, received, ret, returned,
                   runs, channels, agent, invoke>>

SpecDeadline == Init /\ [][Next \/ DeadlineExceeded]_vars

\* frontend_stack.py 236-241, 289-295: a message whose invocation failed stays
\* in the queue and is delivered again, to a fresh run of the handler; the
\* runtime and the Events API keep what they were sent
Redeliver ==
    /\ pc \in {"raised", "timed_out"}
    /\ Len(invocations) < MaxDeliveries
    /\ pc' = "start"
    /\ prompt' = JNull
    /\ session_id' = JNull
    /\ response' = NoResponse
    /\ cursor' = 0
    /\ response_data' = JNull
    /\ handed' = <<>>
    /\ outcomes' = <<>>
    /\ requests' = 0
    /\ ret' = "none"
    /\ returned' = <<>>
    /\ fault' = NoFault
    /\ UNCHANGED <<event, endpoint, invocations, received, runs, channels, agent, invoke>>

\* one well-formed message, the Events API configured
InitRetry ==
    /\ Init
    /\ event = [hasRecords |-> TRUE, Records |-> << [body |->
          "{\"prompt\":\"hi\",\"runtimeSessionId\":\"abcdefghijklmnopqrstuvwxyz0123456\"}"] >>]
    /\ endpoint

SpecRetry == InitRetry /\ [][Next \/ Redeliver]_vars

(***************************************************************************)
(* Two invocations of lambda_handler in two execution environments, for    *)
(* two sessions, their steps interleaved.  Each has its own locals; the    *)
(* Events API is the one thing both write to.                              *)
(***************************************************************************)
Runs == {1, 2}

\* the trigger of each invocation
PairTrigger(r) ==
    [hasRecords |-> TRUE, Records |-> << [body |->
        IF r = 1
        THEN "{\"prompt\":\"hi\",\"runtimeSessionId\":\"abcdefghijklmnopqrstuvwxyz0123456\"}"
        ELSE "{\"prompt\":\"hi\",\"runtimeSessionId\":\"ABCDEFGHIJKLMNOPQRSTUVWXYZ0123456\"}"] >>]

\* the lines the streams of the two invocations are made of
PairLines ==
    { Line("data: {\"event\":{\"contentBlockDelta\":{\"delta\":{\"text\":\"a\"}}}}", FALSE),
      Line("data: {\"event\":{\"contentBlockStart\":{\"start\":{\"toolUse\":{\"name\":\"kb_search\"}}}}}", FALSE),
      Line("data: {\"event\":null}", FALSE) }

PairResponses ==
    { Response(TRUE, "text/event-stream", lines, "") : lines \in SeqsUpTo(PairLines, MaxLines) }
    \cup { Response(TRUE, "application/json", <<>>, "{\"answer\":\"hello\"}") }

\* the channels of the Events API the two invocations publish to
PairChannels == { ChannelName(ParseOutcome(PairTrigger(r)).session_id) : r \in Runs }

InitPair ==
    /\ pc = "start"
    /\ event = [hasRecords |-> FALSE, Records |-> <<>>]
    /\ endpoint = TRUE
    /\ prompt = JNull
    /\ session_id = JNull
    /\ invocations = <<>>
    /\ response = NoResponse
    /\ cursor = 0
    /\ response_data = JNull
    /\ handed = <<>>
    /\ outcomes = <<>>
    /\ requests = 0
    /\ received = <<>>
    /\ ret = "none"
    /\ returned = <<>>
    /\ fault = NoFault
    /\ runs = [r \in Runs |->
          [event |-> PairTrigger(r), pc |-> "start", session_id |-> JNull,
           response |-> NoResponse, cursor |-> 0, response_data |-> JNull,
           accepted |-> <<>>, sent |-> <<>>]]
    /\ channels = [c \in PairChannels |-> <<>>]
    /\ agent = AgentIdle
    /\ invoke = InvokeIdle

\* the variables the two invocations leave alone
soloVars == <<pc, event, endpoint, prompt, session_id, invocations, response, cursor,
              response_data, handed, outcomes, requests, received, ret, returned, fault,
              agent, invoke>>

\* lines 14-53: invocation r publishes event_data; the message reaches its
\* channel when the Events API accepts it
PairPublish(r, event_data, outcome, next_pc, next_cursor) ==
    LET msg == ChannelMessage(ChannelName(runs[r].session_id), event_data) IN
    IF Accepted(outcome)
    THEN /\ channels' = [channels EXCEPT ![msg.channel] = Append(@, [by |-> r, msg |-> msg])]
         /\ runs' = [runs EXCEPT ![r].sent = Append(@, msg),
                                 ![r].accepted = Append(@, Accepted(outcome)),
                                 ![r].pc = AfterPublish(outcome, next_pc),
                                 ![r].cursor = next_cursor]
    ELSE /\ channels' = channels
         /\ runs' = [runs EXCEPT ![r].accepted = Append(@, Accepted(outcome)),
                                 ![r].pc = AfterPublish(outcome, next_pc),
                                 ![r].cursor = next_cursor]

\* lines 68-85
PairParse(r) ==
    /\ runs[r].pc = "start"
    /\ LET o == ParseOutcome(runs[r].event) IN
          runs' = [runs EXCEPT ![r].pc = o.pc, ![r].session_id = o.session_id]
    /\ UNCHANGED <<channels, soloVars>>

\* lines 88-100
PairInvoke(r) ==
    /\ runs[r].pc = "invoking"
    /\ \E raised \in BOOLEAN :
          IF raised
          THEN runs' = [runs EXCEPT ![r].pc = "raised"]
          ELSE \E resp \in PairResponses :
                 runs' = [runs EXCEPT ![r].response = resp,
                             ![r].pc = IF IsEventStream(resp) THEN "streaming" ELSE "buffered"]
    /\ UNCHANGED <<channels, soloVars>>

\* lines 105-144, with the publish call of the iteration
PairReadLine(r) ==
    /\ runs[r].pc = "streaming"
    /\ runs[r].cursor < Len(runs[r].response.lines)
    /\ LET o == ProcessLine(runs[r].response.lines[runs[r].cursor + 1], runs[r].session_id) IN
        CASE o.out = "none" ->
                runs' = [runs EXCEPT ![r].cursor = @ + 1] /\ UNCHANGED channels
          [] o.out = "raise" ->
                runs' = [runs EXCEPT ![r].pc = "raised"] /\ UNCHANGED channels
          [] o.out = "publish" ->
                \E outcome \in PublishOutcomes(endpoint) :
                    PairPublish(r, o.data, outcome, "streaming", runs[r].cursor + 1)
    /\ UNCHANGED soloVars

\* line 146
PairStreamEnd(r) ==
    /\ runs[r].pc = "streaming"
    /\ runs[r].cursor = Len(runs[r].response.lines)
    /\ runs' = [runs EXCEPT ![r].pc = "done"]
    /\ UNCHANGED <<channels, soloVars>>

\* lines 151-152
PairReadBody(r) ==
    /\ runs[r].pc = "buffered"
    /\ LET parsed == JsonLoads(runs[r].response.body) IN
          runs' = IF parsed.ok
                  THEN [runs EXCEPT ![r].response_data = parsed.v, ![r].pc = "buf_start"]
                  ELSE [runs EXCEPT ![r].pc = "raised"]
    /\ UNCHANGED <<channels, soloVars>>

\* lines 155-171, with the publish call
PairBufferedPublish(r) ==
    /\ runs[r].pc \in {"buf_start", "buf_content", "buf_end"}
    /\ \E outcome \in PublishOutcomes(endpoint) :
          PairPublish(r, BufferedEvent(runs[r].pc, runs[r].session_id, runs[r].response_data),
                      outcome, BufferedNext(runs[r].pc), runs[r].cursor)
    /\ UNCHANGED soloVars

NextPair ==
    \E r \in Runs :
        \/ PairParse(r)
        \/ PairInvoke(r)
        \/ PairReadLine(r)
        \/ PairStreamEnd(r)
        \/ PairReadBody(r)
        \/ PairBufferedPublish(r)

SpecPair == InitPair /\ [][NextPair]_vars

(***************************************************************************)
(* The supervisor agent's entrypoint, agent_stream                         *)
(* (concierge_agent/supervisor_agent/agent.py), an async generator.        *)
(***************************************************************************)
\* the variables of the relay
relayVars == <<pc, event, endpoint, prompt, session_id, invocations, response, cursor,
               response_data, handed, outcomes, requests, received, ret, returned, fault,
               runs, channels>>

\* the relay, not invoked
RelayIdle ==
    /\ pc = "start"
    /\ event = [hasRecords |-> FALSE, Records |-> <<>>]
    /\ endpoint = TRUE
    /\ prompt = JNull
    /\ session_id = JNull
    /\ invocations = <<>>
    /\ response = NoResponse
    /\ cursor = 0
    /\ response_data = JNull
    /\ handed = <<>>
    /\ outcomes = <<>>
    /\ requests = 0
    /\ received = <<>>
    /\ ret = "none"
    /\ returned = <<>>
    /\ fault = NoFault
    /\ runs = <<>>
    /\ channels = <<>>

\* the payloads agent_stream is called with: any of the three keys absent,
\* None, empty or set
PayloadKeys == {"prompt", "user_id", "session_id"}
PayloadValues == {JNull, JStr(""), JStr("v")}
Payloads == { JDict(f) : f \in UNION { [S -> PayloadValues] : S \in SUBSET PayloadKeys } }

\* the events agent.stream_async produces
ModelEvents ==
    { ContentRecord(JStr("a")),
      ToolRecord(JDict([name |-> JStr("kb_search")])),
      JDict([event |-> JStr("messageStop")]) }

\* an exception, by its class and str(e)
Exc(class, msg) == [class |-> class, msg |-> msg]
NoExc == Exc("none", "")

\* what create_supervisor_agent raises: it is a plain call
CreateExceptions == { Exc("RuntimeError", "boom") }

\* what the async for over stream_async raises: an error of the model, or
\* the cancellation of the task that awaits it
StreamExceptions == { Exc("RuntimeError", "boom"), Exc("CancelledError", "") }

\* issubclass(class, Exception); asyncio.CancelledError derives from BaseException
DerivesFromException(class) == class \in {"Exception", "RuntimeError"}

\* line 243: except Exception
Caught(e) == DerivesFromException(e.class)

\* a test that looks at the prompt only
AllPresentPromptOnly(user_query, user_id, sid) == Truthy(user_query)

\* line 220: all([user_query, user_id, session_id])
AllPresent(user_query, user_id, sid) == Truthy(user_query) /\ Truthy(user_id) /\ Truthy(sid)

\* lines 221-223: the record a rejected payload is answered with
MissingFieldsRecord ==
    JDict([status |-> JStr("error"),
           error |-> JStr("Missing required fields: prompt, user_id, or session_id")])

\* a handler that reports the status only
FailureRecordsStatusOnly(e) == << JDict([status |-> JStr("error"), error |-> JStr(e.msg)]) >>

\* lines 247-248: the two records a caught exception is answered with
FailureRecords(e) ==
    << ContentRecord(JStr("Error: " \o e.msg)),
       JDict([status |-> JStr("error"), error |-> JStr(e.msg)]) >>

\* agent_stream(payload), called and not yet run
AgentCall(payload) ==
    [pc |-> "start", payload |-> payload, created |-> 0, events |-> <<>>, failure |-> NoExc,
     k |-> 0, yielded |-> <<>>, exc |-> NoExc, pending |-> <<>>, raised |-> "none"]

InitAgent ==
    /\ RelayIdle
    /\ invoke = InvokeIdle
    /\ agent \in { AgentCall(payload) : payload \in Payloads }

\* lines 213-224: read the payload; a payload that lacks a field is answered
\* with one record
AgentEntry ==
    /\ agent.pc = "start"
    /\ LET user_query == Get(agent.payload, "prompt", JNull)
           user_id == Get(agent.payload, "user_id", JNull)
           sid == Get(agent.payload, "session_id", JNull)
       IN  IF AllPresent(user_query, user_id, sid)
           THEN agent' = [agent EXCEPT !.pc = "creating"]
           ELSE agent' = [agent EXCEPT !.pc = "rejected",
                                       !.yielded = Append(@, MissingFieldsRecord)]
    /\ UNCHANGED <<relayVars, invoke>>

\* line 224: return
AgentReturn ==
    /\ agent.pc = "rejected"
    /\ agent' = [agent EXCEPT !.pc = "ended"]
    /\ UNCHANGED <<relayVars, invoke>>

\* line 230: create_supervisor_agent returns an agent, whose stream is
\* `events` ended by `failure`, or raises
AgentCreate ==
    /\ agent.pc = "creating"
    /\ \/ \E evs \in SeqsUpTo(ModelEvents, MaxModelEvents),
             f \in {NoExc} \cup StreamExceptions :
             agent' = [agent EXCEPT !.pc = "streaming", !.created = @ + 1,
                                    !.events = evs, !.failure = f]
       \/ \E e \in CreateExceptions :
             agent' = [agent EXCEPT !.pc = "failing", !.exc = e,
                                    !.pending = FailureRecords(e)]
    /\ UNCHANGED <<relayVars, invoke>>

\* lines 235-239: the next event of the model is yielded as it is
AgentYield ==
    /\ agent.pc = "streaming"
    /\ agent.k < Len(agent.events)
    /\ agent' = [agent EXCEPT !.k = @ + 1, !.yielded = Append(@, agent.events[agent.k + 1])]
    /\ UNCHANGED <<relayVars, invoke>>

\* lines 235, 241-245: the stream ends, or raises; an exception the handler
\* does not catch leaves the generator
AgentStreamOver ==
    /\ agent.pc = "streaming"
    /\ agent.k = Len(agent.events)
    /\ agent' =
          IF agent.failure = NoExc THEN [agent EXCEPT !.pc = "ended"]
          ELSE IF Caught(agent.failure)
               THEN [agent EXCEPT !.pc = "failing", !.exc = agent.failure,
                                  !.pending = FailureRecords(agent.failure)]
               ELSE [agent EXCEPT !.pc = "raised", !.exc = agent.failure,
                                  !.raised = agent.failure.class]
    /\ UNCHANGED <<relayVars, invoke>>

\* lines 247-248: one of the records of the handler is yielded
AgentFail ==
    /\ agent.pc = "failing"
    /\ agent.pending # <<>>
    /\ agent' = [agent EXCEPT !.yielded = Append(@, Head(agent.pending)),
                              !.pending = Tail(@)]
    /\ UNCHANGED <<relayVars, invoke>>

\* line 248: the handler is over and so is the generator
AgentFailEnd ==
    /\ agent.pc = "failing"
    /\ agent.pending = <<>>
    /\ agent' = [agent EXCEPT !.pc = "ended"]
    /\ UNCHANGED <<relayVars, invoke>>

NextAgent ==
    \/ AgentEntry
    \/ AgentReturn
    \/ AgentCreate
    \/ AgentYield
    \/ AgentStreamOver
    \/ AgentFail
    \/ AgentFailEnd

SpecAgent == InitAgent /\ [][NextAgent]_vars

(***************************************************************************)
(* Vocabulary of the properties.                                           *)
(***************************************************************************)
\* the session id a conforming request must at least have
MinSessionIdLength == 33

\* the event a publish call carries
EventOf(msg) == msg.events[1].json

\* the events of a sequence of publish calls
EventsOf(h) == [i \in DOMAIN h |-> EventOf(h[i])]

IsType(e, types) == "type" \in DOMAIN e /\ e.type \in types

IsStart(e) == IsType(e, {"start"})
IsDelta(e) == IsType(e, {"content", "tool_use"})
IsEnd(e) == IsType(e, {"end"})
IsError(e) == IsType(e, {"error"}) \/ ("status" \in DOMAIN e /\ e.status = "error")
IsTerminal(e) == IsEnd(e) \/ IsError(e)

Terminated == pc \in {"done", "raised"}
Validated == invocations # <<>>
Responded == response # NoResponse
StreamingRun == Responded /\ IsEventStream(response)
BufferedRun == Responded /\ ~IsEventStream(response)

\* the positions of h whose event satisfies P
Positions(h, P(_)) == { i \in DOMAIN h : P(EventOf(h[i])) }

RECURSIVE EventsOfPrefix(_, _, _)
\* the events the first n lines classify to, in line order
EventsOfPrefix(lines, n, sid) ==
    IF n = 0 THEN <<>>
    ELSE LET o == ProcessLine(lines[n], sid)
             before == EventsOfPrefix(lines, n - 1, sid)
         IN  IF o.out = "publish" THEN Append(before, o.data) ELSE before

RECURSIVE RelayOf(_, _)
\* the events a run over the stream `lines` publishes, up to its end or its fault
RelayOf(lines, sid) ==
    IF lines = <<>> THEN <<>>
    ELSE LET o == ProcessLine(Head(lines), sid) IN
         CASE o.out = "raise"   -> <<>>
           [] o.out = "publish" -> <<o.data>> \o RelayOf(Tail(lines), sid)
           [] o.out = "none"    -> RelayOf(Tail(lines), sid)

RECURSIVE Kept(_, _)
\* the calls of h whose outcome in o was an accepted message
Kept(h, o) ==
    IF o = <<>> THEN <<>>
    ELSE LET n == Len(o)
             before == Kept(h, SubSeq(o, 1, n - 1))
         IN  IF o[n] = "status_200" THEN Append(before, h[n]) ELSE before

(***************************************************************************)
(* C1: a streaming run hands exactly one start and exactly one terminal    *)
(* event (end or error) to the publisher, whatever the stream.             *)
(***************************************************************************)
BracketExactlyOnce ==
    (Terminated /\ StreamingRun) =>
        /\ Cardinality(Positions(handed, IsStart)) = 1
        /\ Cardinality(Positions(handed, IsTerminal)) = 1

(***************************************************************************)
(* C2: the publish calls of a run are ordered start, then content and      *)
(* tool_use events, then the terminal event: no content or tool_use comes  *)
(* before the start or after the terminal event.                           *)
(***************************************************************************)
PublishOrder ==
    /\ \A i \in Positions(handed, IsDelta) :
          /\ \E j \in 1..(i - 1) : IsStart(EventOf(handed[j]))
          /\ \A j \in 1..(i - 1) : ~IsTerminal(EventOf(handed[j]))
    /\ (pc = "done" /\ handed # <<>>) =>
          /\ IsStart(EventOf(handed[1]))
          /\ IsTerminal(EventOf(handed[Len(handed)]))

\* what the session channel may hold once a run is over
FullBracket(evs) ==
    /\ Len(evs) >= 2
    /\ IsStart(evs[1])
    /\ IsEnd(evs[Len(evs)])
    /\ \A i \in 2..(Len(evs) - 1) : IsDelta(evs[i])

SingleError(evs) == Len(evs) = 1 /\ IsError(evs[1])

(***************************************************************************)
(* C3: once a validated run has terminated, the session channel holds a    *)
(* full start .. end bracket or a single error, also when publish calls    *)
(* failed and were dropped.                                                *)
(***************************************************************************)
ChannelBracketOrError ==
    (Terminated /\ Validated) =>
        \/ FullBracket(EventsOf(received))
        \/ SingleError(EventsOf(received))

(***************************************************************************)
(* C4: when the upstream invocation raises, exactly one error event is     *)
(* published to the session channel and nothing else.                      *)
(***************************************************************************)
UpstreamFaultPublishesError ==
    (pc = "raised" /\ fault = "ClientError") =>
        /\ Len(handed) = 1
        /\ IsError(EventOf(handed[1]))

(***************************************************************************)
(* C5: the content and tool_use events handed to the publisher are those   *)
(* of the lines consumed so far, in line order, and a line is consumed     *)
(* only when every earlier publish call has returned.                      *)
(***************************************************************************)
OrderPreserved ==
    StreamingRun =>
        /\ EventsOf(handed) = EventsOfPrefix(response.lines, cursor, session_id)
        /\ Len(outcomes) = IF pc = "publishing" THEN Len(handed) - 1 ELSE Len(handed)

\* two events reached the publisher from two different lines
OrderPreservedWitness ==
    /\ StreamingRun
    /\ pc = "done"
    /\ Len(handed) >= 2
    /\ EventOf(handed[1]) # EventOf(handed[2])

(***************************************************************************)
(* C6: a failed publish drops that one event and nothing else: a run over  *)
(* a stream stops early only on a fault of a line, it hands every event    *)
(* of the stream to the publisher, and the channel misses exactly the      *)
(* events whose publish failed.                                            *)
(***************************************************************************)
PublishFaultIsolated ==
    StreamingRun =>
        /\ pc = "raised" =>
              /\ cursor < Len(response.lines)
              /\ ProcessLine(response.lines[cursor + 1], session_id).out = "raise"
        /\ pc = "done" =>
              EventsOf(handed) =
                  EventsOfPrefix(response.lines, Len(response.lines), session_id)
        /\ received = Kept(handed, outcomes)

\* a publish failed, and a later event was still handed over and accepted
PublishFaultIsolatedWitness ==
    /\ StreamingRun
    /\ pc = "done"
    /\ \E k \in 1..(Len(outcomes) - 1) :
          /\ outcomes[k] # "status_200"
          /\ outcomes[k + 1] = "status_200"

\* the line has no data: prefix, or has one and no JSON after it
Malformed(line) ==
    \/ ~StartsWith(line.text, "data: ")
    \/ line.invalid
    \/ ~JsonLoads(SubSeq(line.text, 7, Len(line.text))).ok

WellFormed(line) == ~Malformed(line)

(***************************************************************************)
(* C7: a run over a stream publishes the content and tool_use events of    *)
(* the same stream without its malformed lines (no data: prefix, or no     *)
(* JSON after the prefix).                                                 *)
(***************************************************************************)
DecodeFaultIsolated ==
    (Terminated /\ StreamingRun) =>
        EventsOf(handed) = RelayOf(SelectSeq(response.lines, WellFormed), session_id)

\* the first record's body is an object that lacks prompt or runtimeSessionId,
\* or has an empty one
MissingField(ev) ==
    /\ ev.hasRecords
    /\ ev.Records # <<>>
    /\ LET parsed == JsonLoads(ev.Records[1].body) IN
          /\ parsed.ok
          /\ parsed.v.t = "dict"
          /\ \E k \in {"prompt", "runtimeSessionId"} :
                k \notin DOMAIN parsed.v.f \/ parsed.v.f[k] = JStr("")

(***************************************************************************)
(* C8: a trigger whose body lacks prompt or runtimeSessionId, or has an    *)
(* empty one, is rejected with a ValueError and the runtime is never       *)
(* invoked.                                                                *)
(***************************************************************************)
ValidationRejects ==
    MissingField(event) =>
        /\ invocations = <<>>
        /\ pc \in {"start", "raised"}
        /\ pc = "raised" => fault = "ValueError"

\* such a trigger was handled
ValidationRejectsWitness ==
    /\ MissingField(event)
    /\ pc = "raised"
    /\ "prompt" \in DOMAIN JsonLoads(event.Records[1].body).v.f

(***************************************************************************)
(* C9: the runtime is invoked only with session ids of at least 33         *)
(* characters.                                                             *)
(***************************************************************************)
ShortSessionRejected ==
    \A i \in DOMAIN invocations :
        Len(invocations[i].runtimeSessionId.s) >= MinSessionIdLength

(***************************************************************************)
(* C10: a buffered run whose body is read and parses hands exactly start,  *)
(* content with the whole parsed payload, end to the publisher, in this    *)
(* order, on channel chat/<sessionId>, whatever the outcome of each        *)
(* publish.                                                                *)
(***************************************************************************)
BufferedSequence ==
    (BufferedRun /\ fault # "ReadTimeoutError" /\ JsonLoads(response.body).ok) =>
        /\ Terminated => pc = "done"
        /\ pc = "done" =>
              /\ \A i \in DOMAIN handed :
                    /\ handed[i].channel = "chat/" \o session_id.s
                    /\ Len(handed[i].events) = 1
              /\ EventsOf(handed) =
                    << [type |-> "start", sessionId |-> session_id],
                       [type |-> "content", sessionId |-> session_id,
                        content |-> JsonLoads(response.body).v],
                       [type |-> "end", sessionId |-> session_id] >>

\* the buffered path finished although its first publish failed
BufferedSequenceWitness ==
    /\ BufferedRun
    /\ pc = "done"
    /\ Len(outcomes) = 3
    /\ outcomes[1] # "status_200"

RECURSIVE Path(_, _)
\* the value under the keys of a nested object, JNull where a key is missing
Path(v, keys) ==
    IF keys = <<>> THEN v
    ELSE IF v.t = "dict" /\ Head(keys) \in DOMAIN v.f
         THEN Path(v.f[Head(keys)], Tail(keys))
         ELSE JNull

\* the JSON value a well-formed line carries
RecordOf(line) == JsonLoads(SubSeq(line.text, 7, Len(line.text))).v

\* s.endswith(p)
EndsWith(s, p) == Len(s) >= Len(p) /\ SubSeq(s, Len(s) - Len(p) + 1, Len(s)) = p

\* the runtimeSessionId of the trigger's first record
TriggerSessionId == Path(JsonLoads(event.Records[1].body).v, <<"runtimeSessionId">>)

(***************************************************************************)
(* C11: every publish call of a run for session id s goes to channel       *)
(* "chat/" + s, on both paths, and every event with a sessionId carries s. *)
(***************************************************************************)
ChannelNaming ==
    \A i \in DOMAIN handed :
        /\ TriggerSessionId.t = "str"
        /\ handed[i].channel = "chat/" \o TriggerSessionId.s
        /\ TriggerSessionId.s = "abcdefghijklmnopqrstuvwxyz0123456" =>
              handed[i].channel = "chat/abcdefghijklmnopqrstuvwxyz0123456"
        /\ "sessionId" \in DOMAIN EventOf(handed[i]) =>
              EventOf(handed[i]).sessionId = TriggerSessionId

\* a streamed event was published for the 33-character session id
ChannelNamingWitness ==
    /\ StreamingRun
    /\ Len(handed) >= 1
    /\ TriggerSessionId = JStr(LongSessionId)
    /\ handed[Len(handed)].channel = "chat/abcdefghijklmnopqrstuvwxyz0123456"

\* the line the loop consumes next
NextLine == response.lines[cursor + 1]

\* the line carries an object whose event has a toolUse start and no delta
ToolUseLine(line) ==
    /\ WellFormed(line)
    /\ Path(RecordOf(line), <<"event">>).t = "dict"
    /\ "contentBlockDelta" \notin DOMAIN Path(RecordOf(line), <<"event">>).f
    /\ Path(RecordOf(line), <<"event", "contentBlockStart", "start", "toolUse">>).t = "dict"

ToolName(line) ==
    Path(RecordOf(line), <<"event", "contentBlockStart", "start", "toolUse", "name">>)

NamedTool(line) == ToolName(line).t = "str" /\ ToolName(line).s # ""

(***************************************************************************)
(* C12: consuming a record with a named toolUse (and no content delta)     *)
(* hands exactly one tool_use event whose text is the template "Using      *)
(* tool: <name>"; a toolUse with a missing or empty name hands none; the   *)
(* run goes on in both cases.                                              *)
(***************************************************************************)
ToolUseExtracted ==
    [][(pc = "streaming" /\ cursor < Len(response.lines) /\ ToolUseLine(NextLine)) =>
          /\ cursor' = cursor + 1
          /\ pc' # "raised"
          /\ IF NamedTool(NextLine)
             THEN /\ Len(handed') = Len(handed) + 1
                  /\ SubSeq(handed', 1, Len(handed)) = handed
                  /\ LET e == EventOf(handed'[Len(handed')]) IN
                        /\ e.type = "tool_use"
                        /\ e.text.t = "str"
                        /\ EndsWith(e.text.s, "Using tool: " \o ToolName(NextLine).s)
             ELSE handed' = handed /\ pc' = "streaming"]_vars

\* a tool_use event was handed over and a nameless toolUse was passed by
ToolUseExtractedWitness ==
    /\ StreamingRun
    /\ pc = "done"
    /\ \E i \in DOMAIN handed : IsType(EventOf(handed[i]), {"tool_use"})
    /\ \E i \in 1..cursor :
          ToolUseLine(response.lines[i]) /\ ~NamedTool(response.lines[i])

(***************************************************************************)
(* C14: publish_to_appsync returns to its caller whatever happens in it:   *)
(* no endpoint, a signing error, a transport error, any status, a          *)
(* response that does not decode.                                          *)
(***************************************************************************)
PublisherNeverRaises ==
    [][pc = "publishing" =>
          /\ pc' = ret
          /\ fault' = NoFault
          /\ Len(returned') = Len(returned) + 1]_vars

\* the publisher met each kind of failure and the handler went on
PublisherNeverRaisesWitness ==
    /\ pc = "done"
    /\ fault = NoFault
    /\ \E i, j, k \in DOMAIN outcomes :
          /\ outcomes[i] = "sign_error"
          /\ outcomes[j] = "transport_error"
          /\ outcomes[k] = "decode_error"

(***************************************************************************)
(* C15: the value publish_to_appsync returns tells a published event from  *)
(* a dropped one: calls that ended with an accepted message and calls      *)
(* that failed return different values.                                    *)
(***************************************************************************)
PublisherReportsOutcome ==
    \A i, j \in DOMAIN returned :
        (outcomes[i] = "status_200" /\ outcomes[j] # "status_200") =>
            returned[i] # returned[j]

(***************************************************************************)
(* C16: no line that parses as JSON makes the relay raise: a streaming     *)
(* run stops early only on a line that is not a well-formed data line.     *)
(***************************************************************************)
ClassificationTotal ==
    (StreamingRun /\ pc = "raised") => Malformed(NextLine)

\* the text of the record's content delta
DeltaText(line) ==
    Path(RecordOf(line), <<"event", "contentBlockDelta", "delta", "text">>)

HasText(line) == WellFormed(line) /\ DeltaText(line).t = "str" /\ DeltaText(line).s # ""

RECURSIVE NonEmptyTexts(_, _)
\* the non-empty delta texts of the first n lines, in order
NonEmptyTexts(lines, n) ==
    IF n = 0 THEN <<>>
    ELSE IF HasText(lines[n])
         THEN Append(NonEmptyTexts(lines, n - 1), DeltaText(lines[n]))
         ELSE NonEmptyTexts(lines, n - 1)

IsContent(e) == IsType(e, {"content"})
IsToolUse(e) == IsType(e, {"tool_use"})

\* the texts of the events of h that satisfy P, in order
TextsOf(h, P(_)) ==
    LET evs == SelectSeq(EventsOf(h), P)
    IN  [i \in DOMAIN evs |-> evs[i].text]

(***************************************************************************)
(* C19: the content events handed over are exactly the non-empty delta     *)
(* texts of the consumed records, unchanged; an empty delta text gives no  *)
(* event.                                                                  *)
(***************************************************************************)
ContentIffNonEmptyText ==
    StreamingRun => TextsOf(handed, IsContent) = NonEmptyTexts(response.lines, cursor)

\* the record has a named toolUse and no non-empty delta text
ToolByPriority(line) ==
    /\ WellFormed(line)
    /\ ~HasText(line)
    /\ ToolName(line).t = "str"
    /\ ToolName(line).s # ""

RECURSIVE ToolsByPriority(_, _)
\* the tool names of the first n lines that rule 2 applies to, in order
ToolsByPriority(lines, n) ==
    IF n = 0 THEN <<>>
    ELSE IF ToolByPriority(lines[n])
         THEN Append(ToolsByPriority(lines, n - 1), ToolName(lines[n]).s)
         ELSE ToolsByPriority(lines, n - 1)

(***************************************************************************)
(* C20: the classifier's rules apply in priority order: every consumed     *)
(* record without non-empty delta text and with a named toolUse gives a    *)
(* tool_use event for that name, and no record gives two events.           *)
(***************************************************************************)
ClassifierPriority ==
    StreamingRun =>
        /\ Len(handed) <= cursor
        /\ LET texts == TextsOf(handed, IsToolUse)
               names == ToolsByPriority(response.lines, cursor)
           IN  /\ Len(texts) = Len(names)
               /\ \A i \in DOMAIN texts :
                     EndsWith(texts[i].s, "Using tool: " \o names[i])

(***************************************************************************)
(* C13: retries are idempotent: when a message is delivered again after a  *)
(* failed run, the session channel ends up with the events of the one      *)
(* successful run and nothing from the failed one.                         *)
(***************************************************************************)
RetryIdempotent ==
    pc = "done" => received = Kept(handed, outcomes)

(***************************************************************************)
(* C17: when the deadline passes in the middle of a stream, the relay      *)
(* attempts to publish a terminal error event before the run is given up.  *)
(***************************************************************************)
DeadlineErrorAttempted ==
    (pc = "timed_out" /\ StreamingRun) =>
        /\ handed # <<>>
        /\ IsError(EventOf(handed[Len(handed)]))

\* the messages a channel holds, without who published them
MessagesOn(c) == [i \in DOMAIN channels[c] |-> channels[c][i].msg]

RECURSIVE Delivered(_, _)
\* the events of h the Events API accepted, a being the verdict on each
Delivered(h, a) ==
    IF a = <<>> THEN <<>>
    ELSE LET n == Len(a)
             before == Delivered(h, SubSeq(a, 1, n - 1))
         IN  IF a[n] THEN Append(before, h[n]) ELSE before

\* the events the buffered path has handed to the publisher at position p
BufferedOrder(p, sid, data) ==
    LET all == << BufferedEvent("buf_start", sid, data),
                  BufferedEvent("buf_content", sid, data),
                  BufferedEvent("buf_end", sid, data) >>
    IN  CASE p = "buf_content" -> SubSeq(all, 1, 1)
          [] p = "buf_end"     -> SubSeq(all, 1, 2)
          [] p = "done"        -> all
          [] OTHER             -> <<>>

\* the events run r, executed alone on its response, hands to the publisher
\* up to where it is, in order
AloneOrder(r) ==
    IF runs[r].response = NoResponse THEN <<>>
    ELSE IF IsEventStream(runs[r].response)
         THEN EventsOfPrefix(runs[r].response.lines, runs[r].cursor, runs[r].session_id)
         ELSE BufferedOrder(runs[r].pc, runs[r].session_id, runs[r].response_data)

(***************************************************************************)
(* C18: two runs with distinct session ids, interleaved: every message on  *)
(* channel chat/s was published by the run for session s, and each         *)
(* channel holds its own run's messages in the order that run sent them.   *)
(***************************************************************************)
RunsIsolated ==
    /\ \A r \in Runs : Len(runs[r].accepted) = Len(AloneOrder(r))
    /\ \A c \in DOMAIN channels : \A i \in DOMAIN channels[c] :
          /\ c = "chat/" \o runs[channels[c][i].by].session_id.s
          /\ channels[c][i].msg.channel = c
    /\ \A r \in Runs :
          runs[r].sent # <<>> =>
              \E c \in DOMAIN channels :
                  /\ c = "chat/" \o runs[r].session_id.s
                  /\ MessagesOn(c) = runs[r].sent
                  /\ EventsOf(MessagesOn(c)) = Delivered(AloneOrder(r), runs[r].accepted)

\* both runs are over and each channel holds two messages of its run
RunsIsolatedWitness ==
    /\ \A r \in Runs : runs[r].pc = "done" /\ Len(runs[r].sent) >= 2
    /\ \A c \in DOMAIN channels : Len(channels[c]) >= 2

(***************************************************************************)
(* C21: a call of the publisher sends at most one request and does not     *)
(* send it again, so a run sends each of its events at most once: the      *)
(* requests never outnumber the finished calls, the calls never outnumber  *)
(* the events, and the channel never holds more than was requested.        *)
(***************************************************************************)
SingleRequestPerPublish ==
    /\ requests <= Len(outcomes)
    /\ Len(outcomes) <= Len(handed)
    /\ Len(received) <= requests
    /\ StreamingRun =>
          Len(handed) = Len(EventsOfPrefix(response.lines, cursor, session_id))
    /\ BufferedRun => Len(handed) <= 3

\* a run is over in which a request failed and a later one was accepted
SingleRequestPerPublishWitness ==
    /\ pc = "done"
    /\ requests = 2
    /\ outcomes = <<"status_500", "status_200">>

(***************************************************************************)
(* C22: every message carries exactly one event, every event of the run    *)
(* is one call of the publisher, and no message carries two events.        *)
(***************************************************************************)
OneEventPerMessage ==
    /\ \A i \in DOMAIN handed : Len(handed[i].events) = 1
    /\ \A i \in DOMAIN received : Len(received[i].events) = 1
    /\ StreamingRun =>
          EventsOf(handed) = EventsOfPrefix(response.lines, cursor, session_id)
    /\ (BufferedRun /\ pc = "done") =>
          EventsOf(handed) = << BufferedEvent("buf_start", session_id, response_data),
                                BufferedEvent("buf_content", session_id, response_data),
                                BufferedEvent("buf_end", session_id, response_data) >>

\* a streaming run is over that published two different events
OneEventPerMessageWitness ==
    /\ pc = "done"
    /\ StreamingRun
    /\ Len(received) = 2
    /\ EventOf(received[1]) # EventOf(received[2])

\* the phase of the run
Phase ==
    CASE pc = "start"                                          -> "Idle"
      [] pc = "invoking"                                       -> "Invoking"
      [] pc = "streaming"                                      -> "Streaming"
      [] pc \in {"buffered", "buf_start", "buf_content", "buf_end"} -> "Buffered"
      [] pc = "publishing" /\ ret = "streaming"                -> "Streaming"
      [] pc = "publishing" /\ ret # "streaming"                -> "Buffered"
      [] OTHER                                                 -> "Terminated"

\* the steps from one phase to the next
PhaseSteps ==
    { <<"Idle", "Invoking">>, <<"Idle", "Terminated">>,
      <<"Invoking", "Streaming">>, <<"Invoking", "Buffered">>, <<"Invoking", "Terminated">>,
      <<"Streaming", "Terminated">>, <<"Buffered", "Terminated">> }
    \cup { <<ph, ph>> : ph \in {"Idle", "Invoking", "Streaming", "Buffered", "Terminated"} }

\* the response declares an event stream
DeclaresEventStream ==
    response.hasContentType /\ IsSubstring("text/event-stream", response.contentType)

(***************************************************************************)
(* C23: the phases follow Idle, Invoking, one of Streaming and Buffered,   *)
(* Terminated; the runtime is invoked at most once, after validation and   *)
(* before the first publish; the path is Streaming exactly when the        *)
(* content type declares text/event-stream; nothing is published after     *)
(* the end.                                                                *)
(***************************************************************************)
PhaseOrder ==
    /\ [](Len(invocations) <= 1)
    /\ [](invocations # <<>> => Truthy(prompt) /\ Truthy(session_id))
    /\ [](handed # <<>> => invocations # <<>>)
    /\ [](Phase = "Streaming" => DeclaresEventStream)
    /\ [](Phase = "Buffered" => ~DeclaresEventStream)
    /\ [][ /\ <<Phase, Phase'>> \in PhaseSteps
           /\ invocations' # invocations => (Phase = "Invoking" /\ handed = <<>>)
           /\ Terminated => (handed' = handed /\ requests' = requests /\ received' = received)
         ]_vars

\* a response without a content type went down the buffered path to its end
PhaseOrderWitness ==
    /\ pc = "done"
    /\ Responded
    /\ ~response.hasContentType
    /\ Len(handed) = 3

(***************************************************************************)
(* C24: every run terminates: when every read and every call returns, the  *)
(* run eventually returns or raises to the invocation context.             *)
(***************************************************************************)
RunTerminates == <>Terminated

\* a run returned after it consumed a stream of MaxLines lines
RunTerminatesWitness ==
    /\ pc = "done"
    /\ StreamingRun
    /\ Len(response.lines) = MaxLines
    /\ cursor = MaxLines

\* the trigger carries no record
NoRecords == ~event.hasRecords \/ event.Records = <<>>

\* the request in the first record of the trigger, when it is one
FirstRequest ==
    LET parsed == JsonLoads(event.Records[1].body) IN
    IF parsed.ok /\ parsed.v.t = "dict"
    THEN [ok |-> TRUE, prompt |-> Get(parsed.v, "prompt", JNull),
          sid |-> Get(parsed.v, "runtimeSessionId", JNull)]
    ELSE [ok |-> FALSE]

(***************************************************************************)
(* C25: one invocation of the handler relays at most one request: without  *)
(* records it raises ValueError with no upstream call and no publish;      *)
(* with records the one upstream call and every publish are those of       *)
(* Records[0], whatever the records after it.                              *)
(***************************************************************************)
OneRelayPerInvocation ==
    /\ Len(invocations) <= 1
    /\ (NoRecords /\ pc # "start") =>
          /\ pc = "raised" /\ fault = "ValueError"
          /\ invocations = <<>> /\ handed = <<>> /\ requests = 0
    /\ (~NoRecords /\ ~FirstRequest.ok) => (invocations = <<>> /\ handed = <<>>)
    /\ (~NoRecords /\ FirstRequest.ok) =>
          /\ \A i \in DOMAIN invocations :
                invocations[i] = Invocation(FirstRequest.sid, FirstRequest.prompt)
          /\ \A i \in DOMAIN handed :
                /\ handed[i].channel = "chat/" \o PyStr(FirstRequest.sid)
                /\ EventOf(handed[i]).sessionId = FirstRequest.sid

\* a trigger of two records whose first names the short session was relayed
OneRelayPerInvocationWitness ==
    /\ Len(event.Records) = 2
    /\ pc = "done"
    /\ Len(invocations) = 1
    /\ invocations[1].runtimeSessionId = JStr(ShortSessionId)
    /\ received # <<>>

\* the line the loop reads next decodes to a JSON object without an event key
LacksEvent ==
    /\ pc = "streaming"
    /\ cursor < Len(response.lines)
    /\ WellFormed(NextLine)
    /\ RecordOf(NextLine).t = "dict"
    /\ "event" \notin DOMAIN RecordOf(NextLine).f

\* the two lines the supervisor agent ends a failed stream with (agent.py 247-248)
AgentErrorText == "Error: boom"
AgentFailureLines ==
    << Line("data: {\"event\":{\"contentBlockDelta\":{\"delta\":{\"text\":\"Error: boom\"}}}}", FALSE),
       Line("data: {\"status\":\"error\",\"error\":\"boom\"}", FALSE) >>

(***************************************************************************)
(* C26: a record that is a JSON object without an event key is read past   *)
(* without a publish; so of a failed agent stream the channel is handed    *)
(* the "Error: ..." text as a content event and no error-typed event.      *)
(***************************************************************************)
ErrorRecordNotRelayed ==
    /\ [][LacksEvent => (handed' = handed /\ pc' = "streaming" /\ cursor' = cursor + 1)]_vars
    /\ [](StreamingRun => \A i \in DOMAIN handed : ~IsError(EventOf(handed[i])))
    /\ []((pc = "done" /\ StreamingRun /\ response.lines = AgentFailureLines) =>
            EventsOf(handed) = << [type |-> "content", sessionId |-> session_id,
                                   text |-> JStr(AgentErrorText)] >>)

\* the relay is over for a stream that is the agent's failure, and the channel
\* holds the one content event
ErrorRecordNotRelayedWitness ==
    /\ pc = "done"
    /\ response.lines = AgentFailureLines
    /\ Len(received) = 1
    /\ EventOf(received[1]).type = "content"

\* a field of the payload is missing or empty
LacksField ==
    \E key \in PayloadKeys :
        key \notin DOMAIN agent.payload.f \/ ~Truthy(agent.payload.f[key])

\* the generator is over: it ended or it raised to its caller
AgentOver == agent.pc \in {"ended", "raised"}

(***************************************************************************)
(* C27: agent_stream on a payload that lacks prompt, user_id or            *)
(* session_id yields exactly one {"status":"error","error":...} record     *)
(* and ends: no agent is created and no model event is yielded.            *)
(***************************************************************************)
MissingFieldRejected ==
    LacksField =>
        /\ agent.pc \in {"start", "rejected", "ended"}
        /\ agent.created = 0
        /\ agent.raised = "none"
        /\ agent.yielded \in {<<>>, <<MissingFieldsRecord>>}
        /\ agent.pc # "start" =>
              /\ Len(agent.yielded) = 1
              /\ Get(agent.yielded[1], "status", JNull) = JStr("error")
              /\ "error" \in DOMAIN agent.yielded[1].f

\* the generator ended on a payload whose session_id is empty
MissingFieldRejectedWitness ==
    /\ agent.pc = "ended"
    /\ Get(agent.payload, "prompt", JNull) = JStr("v")
    /\ Get(agent.payload, "user_id", JNull) = JStr("v")
    /\ Get(agent.payload, "session_id", JNull) = JStr("")
    /\ Len(agent.yielded) = 1

\* the two records that follow the events of a failed stream
ErrorTail(msg) ==
    << JDict([event |-> JDict([contentBlockDelta |->
           JDict([delta |-> JDict([text |-> JStr("Error: " \o msg)])])])]),
       JDict([status |-> JStr("error"), error |-> JStr(msg)]) >>

\* the output of a generator that is over, e being what was raised inside it
OutputAfter(e) ==
    /\ agent.pc = "ended"
    /\ agent.raised = "none"
    /\ agent.yielded = SubSeq(agent.events, 1, agent.k) \o ErrorTail(e.msg)

(***************************************************************************)
(* C28 as stated: whatever agent creation or the model stream raises       *)
(* after k events, the output is the k events and then the two error       *)
(* records, and the generator never raises to its caller; without an       *)
(* exception the output is the model's events.                             *)
(***************************************************************************)
FailureOutput ==
    (AgentOver /\ ~LacksField) =>
        IF agent.exc = NoExc /\ agent.failure = NoExc
        THEN agent.raised = "none" /\ agent.yielded = agent.events
        ELSE OutputAfter(IF agent.exc # NoExc THEN agent.exc ELSE agent.failure)

(***************************************************************************)
(* C28 amended: the same for what derives from Exception; an exception     *)
(* that does not (the cancellation of the task) leaves the generator       *)
(* after the k events, with no error record.                               *)
(***************************************************************************)
FailureOutputOfException ==
    (AgentOver /\ ~LacksField) =>
        IF agent.exc = NoExc
        THEN agent.raised = "none" /\ agent.yielded = agent.events
        ELSE IF DerivesFromException(agent.exc.class)
        THEN OutputAfter(agent.exc)
        ELSE /\ agent.pc = "raised"
             /\ agent.raised = agent.exc.class
             /\ agent.yielded = SubSeq(agent.events, 1, agent.k)

\* the model raised after one event and the generator ended with the three records
FailureOutputOfExceptionWitness ==
    /\ agent.pc = "ended"
    /\ agent.k = 1
    /\ agent.exc = Exc("RuntimeError", "boom")
    /\ Len(agent.yielded) = 3

(***************************************************************************)
(* The synchronous handler, invoke_agent                                   *)
(* (infrastructure/lambdas/invoke-agent/handler.py).                       *)
(***************************************************************************)
\* a session id one character short of the minimum
AlmostLongSessionId == "abcdefghijklmnopqrstuvwxyz012345"

\* app.current_event.json_body: it raises on a body that is not JSON
NotJson == [t |-> "invalid"]

\* the bodies POST /invoke is called with
InvokeBodies ==
    { NotJson, JList(<<>>), EmptyDict }
    \cup { JDict([prompt |-> p, session_id |-> sid]) :
             p \in {JStr(""), JStr("hi"), JStr("hello"), JNum(7), JNull},
             sid \in {JNull, JStr(""), JStr(ShortSessionId), JStr(AlmostLongSessionId),
                      JStr(LongSessionId), JStr(OtherSessionId), JNum(12345)} }
    \cup { JDict([prompt |-> JStr("hi")]), JDict([session_id |-> JStr(LongSessionId)]) }

\* the bodies the runtime answers with
InvokeResponseBodies == {"{\"answer\":\"hello\"}", "[]", "upstream timeout"}

\* len(v) is defined for str, list and dict; it raises TypeError otherwise
HasLen(v) == v.t \in {"str", "list", "dict"}

\* len(v)
PyLen(v) ==
    CASE v.t = "str"  -> Len(v.s)
      [] v.t = "list" -> Len(v.items)
      [] v.t = "dict" -> Cardinality(DOMAIN v.f)

\* invoke_agent(), called with a request body and not yet run
InvokeCallOf(body) ==
    [pc |-> "start", body |-> body, prompt |-> JNull, session_id |-> JNull,
     calls |-> <<>>, answered |-> 0, response_body |-> "", exc |-> "none", result |-> 0]

InitInvoke ==
    /\ RelayIdle
    /\ agent = AgentIdle
    /\ invoke \in { InvokeCallOf(body) : body \in InvokeBodies }

\* a response of the handler
Returns(state, statusCode) == [state EXCEPT !.pc = "returned", !.result = statusCode]

\* an exception raised inside the try block
Catches(state, e) == [state EXCEPT !.pc = "caught", !.exc = e]

\* lines 23-37: read the body and validate it
InvokeValidate ==
    /\ invoke.pc = "start"
    /\ invoke' =
          IF invoke.body = NotJson THEN Catches(invoke, "JSONDecodeError")
          ELSE IF invoke.body.t # "dict" THEN Catches(invoke, "AttributeError")
          ELSE LET p == Get(invoke.body, "prompt", JNull)
                   sid == Get(invoke.body, "session_id", JNull)
                   read == [invoke EXCEPT !.prompt = p, !.session_id = sid]
               IN  IF ~Truthy(p) THEN Returns(read, 400)
                   ELSE IF ~Truthy(sid) THEN Returns(read, 400)
                   ELSE IF ~HasLen(sid) THEN Catches(read, "TypeError")
                   ELSE IF PyLen(sid) < MinSessionIdLength THEN Returns(read, 400)
                   ELSE [read EXCEPT !.pc = "calling"]
    /\ UNCHANGED <<relayVars, agent>>

\* lines 40-50: invoke the runtime and read its body; the call raises or answers
InvokeUpstream ==
    /\ invoke.pc = "calling"
    /\ LET called == [invoke EXCEPT !.calls =
                         Append(@, Invocation(invoke.session_id, invoke.prompt))]
       IN  \/ invoke' = Catches(called, "ClientError")
           \/ \E b \in InvokeResponseBodies :
                invoke' = [called EXCEPT !.pc = "parsing", !.answered = @ + 1,
                                         !.response_body = b]
    /\ UNCHANGED <<relayVars, agent>>

\* lines 51-61: parse the body and answer 200
InvokeParse ==
    /\ invoke.pc = "parsing"
    /\ invoke' = IF JsonLoads(invoke.response_body).ok
                 THEN Returns(invoke, 200)
                 ELSE Catches(invoke, "JSONDecodeError")
    /\ UNCHANGED <<relayVars, agent>>

\* lines 63-68: except Exception answers 500
InvokeCaught ==
    /\ invoke.pc = "caught"
    /\ invoke' = Returns(invoke, 500)
    /\ UNCHANGED <<relayVars, agent>>

NextInvoke ==
    \/ InvokeValidate
    \/ InvokeUpstream
    \/ InvokeParse
    \/ InvokeCaught

SpecInvoke == InitInvoke /\ [][NextInvoke]_vars

\* the body carries a non-empty prompt and a session id of the minimum length
InvokableRequest ==
    /\ invoke.body # NotJson
    /\ invoke.body.t = "dict"
    /\ Truthy(Get(invoke.body, "prompt", JNull))
    /\ Get(invoke.body, "session_id", JNull).t = "str"
    /\ Len(Get(invoke.body, "session_id", JNull).s) >= MinSessionIdLength

(***************************************************************************)
(* C29: invoke_agent calls the runtime only for a non-empty prompt and a   *)
(* session id of at least 33 characters, and answers every other JSON      *)
(* object with 400 and no call; it never raises: every exception is answered     *)
(* with 500, every status is 200, 400 or 500, and 200 follows exactly one  *)
(* successful call.                                                        *)
(***************************************************************************)
SyncInvokeContract ==
    /\ invoke.calls # <<>> => InvokableRequest
    /\ Len(invoke.calls) <= 1
    /\ invoke.pc = "returned" =>
          /\ invoke.result \in {200, 400, 500}
          /\ invoke.exc # "none" => invoke.result = 500
          /\ (invoke.body.t = "dict" /\ ~InvokableRequest) =>
                (invoke.result = 400 /\ invoke.calls = <<>>)
          /\ invoke.result = 200 => (Len(invoke.calls) = 1 /\ invoke.answered = 1)

(***************************************************************************)
(* C30: on the buffered path the body is read and parsed before anything   *)
(* is published: a read or a parse that fails raises to the invocation     *)
(* context with no event handed to the publisher, and once start has been  *)
(* handed, content and end are handed as well.                             *)
(***************************************************************************)
BufferedReadBeforePublish ==
    BufferedRun =>
        /\ pc = "buffered" => handed = <<>>
        /\ pc = "raised" =>
              /\ handed = <<>> /\ requests = 0
              /\ fault \in {"ReadTimeoutError", "JSONDecodeError"}
        /\ (Terminated /\ ~JsonLoads(response.body).ok) => (pc = "raised" /\ handed = <<>>)
        /\ handed # <<>> =>
              /\ JsonLoads(response.body).ok
              /\ response_data = JsonLoads(response.body).v
              /\ IsStart(EventOf(handed[1]))
        /\ (Terminated /\ handed # <<>>) =>
              /\ pc = "done"
              /\ Len(handed) = 3
              /\ IsType(EventOf(handed[2]), {"content"})
              /\ IsEnd(EventOf(handed[3]))

\* a buffered response whose body is not JSON ended the run before any publish
BufferedReadBeforePublishWitness ==
    /\ BufferedRun
    /\ pc = "raised"
    /\ fault = "JSONDecodeError"
    /\ response.body = "upstream timeout"
    /\ handed = <<>>

====
